---- MODULE Spec2Model ----
(***************************************************************************)
(* Model of the two polynomial-commitment engines of supersonic-zkproof:   *)
(*   - the pairing-based KZG engine            (src/src/kzg.rs)            *)
(*   - the Ristretto IPA / "Supersonic" engine (src/src/supersonic_ipa.rs) *)
(*                                                                         *)
(* Groups of prime order are modelled by the discrete logarithm of each    *)
(* element with respect to the group generator: a group element a*G is the *)
(* residue a, point addition is addition of residues, scalar               *)
(* multiplication is multiplication of residues, and the pairing           *)
(* e(a*G1, b*G2) = e(G1,G2)^(a*b) is the residue a*b.  This is an          *)
(* isomorphic picture of a cyclic group of prime order; only the order is  *)
(* scaled down.                                                            *)
(***************************************************************************)
EXTENDS Integers, Sequences, FiniteSets, TLC

VARIABLES
    \* ---- KZG engine
    kzg_pc,        \* position in the KZG pipeline
    degree,        \* input: SRS bound handed to kzg_trusted_setup
    s,             \* input: the secret scalar drawn by kzg_trusted_setup
    coeffs,        \* input: raw coefficient vector (main.rs:86)
    z,             \* input: evaluation point
    y_claim,       \* input: value handed to kzg_verify
    setup,         \* KZGSetup returned by kzg_trusted_setup
    poly,          \* DensePolynomial built from coeffs
    commitment,    \* result of kzg_commit
    kzg_err,       \* error reported by kzg_commit / kzg_create_proof
    y,             \* poly.evaluate(z)
    proof,         \* result of kzg_create_proof
    kzg_result,    \* outcome of kzg_verify
    \* ---- IPA engine
    ipa_pc,        \* position in supersonic_create_proof / verify
    seed,          \* which member of the digest family stands for SHA-256
    coeffs_scalar, \* input: coefficient vector (main.rs:57)
    x_scalar,      \* input: evaluation point (main.rs:58)
    ipa_commit,    \* (commitment, g_vec, error) of supersonic_commit
    value,         \* y = eval_poly_scalar(coeffs, x)
    kate,          \* outcome of create_kate_witness
    a_vec, b_vec, g_vec, h_vec,   \* working vectors of create_ipa_proof
    l_vec, r_vec,  \* (L,R) commitments pushed so far
    challenges,    \* the challenge of each fold round, in order
    sproof,        \* the SupersonicProof handed to the verifier
    verdict,       \* outcome of supersonic_verify_proof
    ipa_panic      \* message of the assertion or check that aborted, if any

kzgVars == <<kzg_pc, degree, s, coeffs, z, y_claim, setup, poly, commitment,
             kzg_err, y, proof, kzg_result>>
ipaVars == <<ipa_pc, seed, coeffs_scalar, x_scalar, ipa_commit, value, kate,
             a_vec, b_vec, g_vec, h_vec, l_vec, r_vec, challenges, sproof, verdict,
             ipa_panic>>
vars == <<kzgVars, ipaVars>>

\* ------------------------------------------------------------------ bounds
\* SRS degree bounds d range over 0..MaxDegree.
MaxDegree == 2
\* KZG coefficient vectors have 0..MaxCoeffs entries.
MaxCoeffs == 3
\* IPA coefficient vectors over {0, 1} have 0..MaxLen entries;
MaxLen == 8
\* IPA coefficient vectors over the whole field have 0..MaxShort entries.
MaxShort == 3
\* The digest stand-in is drawn from a family indexed by 0..MaxSeed.
MaxSeed == 1
\* Verifier inputs built by hand carry 0..MaxPairs (L,R) entries per vector.
MaxPairs == 4

\* ------------------------------------------------------- field and groups
\* Order of the scalar field Fr and of the groups G1, G2, GT (kzg.rs).
FrOrder == 5
\* Order of the Ristretto group and of its Scalar field (supersonic_ipa.rs).
ScalarOrder == 5

Fr == 0..(FrOrder - 1)
Scalar == 0..(ScalarOrder - 1)

FrAdd(a, b) == (a + b) % FrOrder
FrSub(a, b) == (a - b) % FrOrder
FrMul(a, b) == (a * b) % FrOrder
FrNeg(a) == (0 - a) % FrOrder
\* Field division: multiplication by the inverse of b (b nonzero).
FrDiv(a, b) == FrMul(a, CHOOSE c \in Fr : FrMul(b, c) = 1)

\* G1Projective::generator() and G2Projective::generator(), as residues.
G1Generator == 1 % FrOrder
G2Generator == 1 % FrOrder
\* Bls12_381::pairing: bilinear and non-degenerate.
Pairing(p, q) == (p * q) % FrOrder

Min(a, b) == IF a < b THEN a ELSE b

\* ------------------------------------------------------------ polynomials
\* DensePolynomial::from_coefficients_vec drops trailing zero coefficients.
RECURSIVE from_coefficients_vec(_)
from_coefficients_vec(v) ==
    IF v = <<>> THEN <<>>
    ELSE IF v[Len(v)] = 0 THEN from_coefficients_vec(SubSeq(v, 1, Len(v) - 1))
    ELSE v

\* DensePolynomial::degree: 0 for the zero polynomial, else len - 1.
PolyDegree(p) == IF p = <<>> THEN 0 ELSE Len(p) - 1

\* DensePolynomial::evaluate (Horner, from the leading coefficient down).
RECURSIVE PolyEvaluate(_, _)
PolyEvaluate(p, pt) ==
    IF p = <<>> THEN 0
    ELSE FrAdd(p[1], FrMul(pt, PolyEvaluate(SubSeq(p, 2, Len(p)), pt)))

\* -------------------------------------------------------------------- KZG
\* The loop of kzg_trusted_setup: n successive powers starting at cur.
RECURSIVE PowersFrom(_, _, _)
PowersFrom(cur, sec, n) ==
    IF n = 0 THEN <<>>
    ELSE <<cur>> \o PowersFrom(FrMul(cur, sec), sec, n - 1)

kzg_trusted_setup(d, sec) ==
    [powers_of_g |-> PowersFrom(G1Generator, sec, d + 1),
     powers_of_h |-> PowersFrom(G2Generator, sec, d + 1),
     s |-> sec]

\* Sum of c_i * g_i over the zipped prefix (zip stops at the shorter side).
RECURSIVE ZipSum(_, _, _)
ZipSum(cs, gs, n) ==
    IF n = 0 THEN 0
    ELSE FrAdd(ZipSum(cs, gs, n - 1), FrMul(gs[n], cs[n]))

kzg_commit(p, st) == ZipSum(p, st.powers_of_g, Min(Len(p), Len(st.powers_of_g)))

\* Inner loop of naive_poly_division: for j in 0..=divisor_deg.
RECURSIVE DivInner(_, _, _, _, _)
DivInner(rem, i, j, coeff, divisor) ==
    LET dd == PolyDegree(divisor) IN
    IF j > dd THEN rem
    ELSE DivInner([rem EXCEPT ![i - j + 1] =
                       FrSub(@, FrMul(coeff, divisor[dd - j + 1]))],
                  i, j + 1, coeff, divisor)

\* Outer loop of naive_poly_division: for i in (divisor_deg..=numerator.degree()).rev().
RECURSIVE DivOuter(_, _, _, _)
DivOuter(i, rem, quo, divisor) ==
    LET dd == PolyDegree(divisor) IN
    IF i < dd THEN [quotient |-> quo, remainder |-> rem]
    ELSE LET coeff == FrDiv(rem[i + 1], divisor[dd + 1]) IN
         DivOuter(i - 1, DivInner(rem, i, 0, coeff, divisor),
                  [quo EXCEPT ![i - dd + 1] = coeff], divisor)

naive_poly_division(numerator, divisor) ==
    LET r == DivOuter(PolyDegree(numerator), numerator,
                      [k \in 1..Len(numerator) |-> 0], divisor)
    IN  [quotient |-> from_coefficients_vec(r.quotient),
         remainder |-> from_coefficients_vec(r.remainder)]

kzg_create_proof(p, pt, st) ==
    LET fz == PolyEvaluate(p, pt)
        cs == IF p = <<>> THEN p ELSE [p EXCEPT ![1] = FrSub(@, fz)]
        numerator == from_coefficients_vec(cs)
        divisor == from_coefficients_vec(<<FrNeg(pt), 1 % FrOrder>>)
        qr == naive_poly_division(numerator, divisor)
    IN  kzg_commit(qr.quotient, st)

\* A variant of kzg_verify that drops the claimed value from the left side.
kzg_verify_noy(c, pt, val, prf, st) ==
    IF Len(st.powers_of_h) < 2 THEN "panic"
    ELSE LET h == st.powers_of_h[1]
             s_g2 == st.powers_of_h[2]
             s_minus_z_g2 == FrSub(s_g2, FrMul(h, pt))
         IN  IF Pairing(c, h) = Pairing(prf, s_minus_z_g2) THEN "true" ELSE "false"

\* kzg_verify: indexing powers_of_h[1] is out of bounds for an SRS of bound 0.
kzg_verify(c, pt, val, prf, st) ==
    IF Len(st.powers_of_h) < 2 THEN "panic"
    ELSE LET h == st.powers_of_h[1]
             s_g2 == st.powers_of_h[2]
             s_minus_z_g2 == FrSub(s_g2, FrMul(h, pt))
             left == Pairing(FrSub(c, FrMul(G1Generator, val)), h)
             right == Pairing(prf, s_minus_z_g2)
         IN  IF left = right THEN "true" ELSE "false"

\* -------------------------------------------------------------------- IPA
ScAdd(a, b) == (a + b) % ScalarOrder
ScMul(a, b) == (a * b) % ScalarOrder

\* RISTRETTO_BASEPOINT_POINT, as a residue.
RISTRETTO_BASEPOINT_POINT == 1 % ScalarOrder

\* Stand-in for Sha256::digest.  The byte string is a sequence of naturals;
\* the digest is a deterministic function of it, one per seed.  Its value is
\* never a multiple of the group order: hashed scalars are nonzero.
RECURSIVE Absorb(_, _)
Absorb(data, acc) ==
    IF data = <<>> THEN acc
    ELSE Absorb(Tail(data), (acc * 3 + Head(data) + 1) % (ScalarOrder - 1))

Sha256(data) == 1 + Absorb(data, seed % (ScalarOrder - 1))

\* Scalar::from_bytes_mod_order
from_bytes_mod_order(h) == h % ScalarOrder

hash_to_scalar(data) == from_bytes_mod_order(Sha256(data))

hash_to_point(data) == ScMul(RISTRETTO_BASEPOINT_POINT, from_bytes_mod_order(Sha256(data)))

\* The byte b"g".
TagG == 103

\* generate_g_vec: element i hashes b"g" followed by the index i.
generate_g_vec(n) == [i \in 1..n |-> hash_to_point(<<TagG, i - 1>>)]

\* Sum of g_i * c_i over the zipped prefix.
RECURSIVE ScZipSum(_, _, _)
ScZipSum(cs, gs, n) ==
    IF n = 0 THEN 0
    ELSE ScAdd(ScZipSum(cs, gs, n - 1), ScMul(gs[n], cs[n]))

commit(cs, gs) == ScZipSum(cs, gs, Min(Len(cs), Len(gs)))

\* RistrettoPoint::multiscalar_mul over two equally long iterators.
multiscalar_mul(scalars, points) == ScZipSum(scalars, points, Min(Len(scalars), Len(points)))

\* The loop of eval_poly_scalar, from coefficient i on.
RECURSIVE EvalLoop(_, _, _, _, _)
EvalLoop(cs, x, i, acc, xp) ==
    IF i > Len(cs) THEN acc
    ELSE EvalLoop(cs, x, i + 1, ScAdd(acc, ScMul(cs[i], xp)), ScMul(xp, x))

\* A variant of eval_poly_scalar that never advances the power of x.
eval_poly_scalar_stuck(cs, x) ==
    ScZipSum(cs, [i \in 1..Len(cs) |-> 1 % ScalarOrder], Len(cs))

eval_poly_scalar(cs, x) == EvalLoop(cs, x, 1, 0, 1 % ScalarOrder)

\* generate_evaluation_vector: (1, x, x^2, ..., x^(n-1)) by running product.
RECURSIVE generate_evaluation_vector(_, _)
generate_evaluation_vector(x, n) ==
    IF n = 0 THEN <<>>
    ELSE IF n = 1 THEN <<1 % ScalarOrder>>
    ELSE LET prev == generate_evaluation_vector(x, n - 1)
         IN  Append(prev, ScMul(prev[n - 1], x))

\* The synthetic-division loop of create_kate_witness: for i in (0..len-1).rev().
RECURSIVE SynthLoop(_, _, _, _, _)
SynthLoop(cs, x, i, quo, rem) ==
    IF i < 1 THEN [quotient_coeffs |-> quo, remainder |-> rem]
    ELSE SynthLoop(cs, x, i - 1, [quo EXCEPT ![i] = rem], ScAdd(cs[i], ScMul(rem, x)))

\* create_kate_witness.  An empty coefficient vector underflows len - 1;
\* a remainder different from y fails the assertion.
create_kate_witness(cs, x, val, gs) ==
    IF Len(cs) = 0
    THEN [panic |-> "underflow", quotient_coeffs |-> <<>>, remainder |-> 0, witness |-> 0]
    ELSE LET d == SynthLoop(cs, x, Len(cs) - 1, [k \in 1..(Len(cs) - 1) |-> 0], cs[Len(cs)])
         IN  IF d.remainder # val
             THEN [panic |-> "Polynomial evaluation mismatch",
                   quotient_coeffs |-> d.quotient_coeffs, remainder |-> d.remainder, witness |-> 0]
             ELSE [panic |-> "none",
                   quotient_coeffs |-> d.quotient_coeffs, remainder |-> d.remainder,
                   witness |-> commit(d.quotient_coeffs, SubSeq(gs, 1, Len(d.quotient_coeffs)))]

\* usize::is_power_of_two
RECURSIVE is_power_of_two(_)
is_power_of_two(n) ==
    IF n <= 0 THEN FALSE
    ELSE IF n = 1 THEN TRUE
    ELSE n % 2 = 0 /\ is_power_of_two(n \div 2)

\* A variant of the midpoint that splits one short of the end.
MidLast(v) == IF Len(v) = 0 THEN 0 ELSE Len(v) - 1

\* let mid = a_vec.len() / 2
Mid(v) == Len(v) \div 2

\* split_at(mid)
SplitL(v, mid) == SubSeq(v, 1, mid)
SplitR(v, mid) == SubSeq(v, mid + 1, Len(v))

\* a_l.iter().zip(a_r.iter()).map(|(l, r)| l + challenge * r)
FoldZip(l, r, c) == [i \in 1..Min(Len(l), Len(r)) |-> ScAdd(l[i], ScMul(c, r[i]))]

\* The challenge of a round: hash of compress(L) followed by compress(R).
Challenge(l, r) == hash_to_scalar(<<l, r>>)

\* Recompute each round's challenge from the proof's zipped (L, R) pairs.
RecomputeChallenges(ls, rs) ==
    [i \in 1..Min(Len(ls), Len(rs)) |-> Challenge(ls[i], rs[i])]

\* The reconstruction loop of verify_ipa_proof: one fold of g and h per challenge.
RECURSIVE Reconstruct(_, _, _)
Reconstruct(g, h, cs) ==
    IF cs = <<>> THEN [g |-> g, h |-> h]
    ELSE LET mid == Mid(g)
         IN  Reconstruct(FoldZip(SplitL(g, mid), SplitR(g, mid), Head(cs)),
                         FoldZip(SplitL(h, mid), SplitR(h, mid), Head(cs)),
                         Tail(cs))

\* verify_kate_witness: expected = witness + y * g_vec[0].
verify_kate_witness(c, w, x, val, gs) ==
    LET y_g == ScMul(gs[1], val)
        expected == ScAdd(w, y_g)
    IN  expected = c

\* verify_ipa_proof.  Indexing g_reconstructed[0] is out of bounds once the
\* reconstructed vectors have been folded down to nothing.
verify_ipa_proof(c, gs, x, val, prf) ==
    LET n == Len(gs)
        chals == RecomputeChallenges(prf.l_vec, prf.r_vec)
        rec == Reconstruct(gs, generate_g_vec(n), chals)
    IN  IF ~is_power_of_two(n)
        THEN [panic |-> "Polynomial degree must be a power of 2", valid |-> FALSE,
              challenges |-> <<>>, g_reconstructed |-> <<>>, h_reconstructed |-> <<>>]
        ELSE IF rec.g = <<>> \/ rec.h = <<>>
        THEN [panic |-> "index out of bounds", valid |-> FALSE,
              challenges |-> chals, g_reconstructed |-> rec.g, h_reconstructed |-> rec.h]
        ELSE LET expected_commitment ==
                     multiscalar_mul(<<prf.a_final, prf.b_final>>, <<rec.g[1], rec.h[1]>>)
                 eval_check == ScMul(prf.a_final, prf.b_final) = val
             IN  [panic |-> "none", valid |-> (expected_commitment = c /\ eval_check),
                  challenges |-> chals, g_reconstructed |-> rec.g, h_reconstructed |-> rec.h]

\* let g_vec = generate_g_vec(8)
VerifierLen == 8

\* supersonic_verify_proof: both checks are evaluated, then conjoined.
supersonic_verify_proof(prf) ==
    LET gs == generate_g_vec(VerifierLen)
        kate_valid == verify_kate_witness(prf.commitment, prf.evaluation_proof.witness,
                                          prf.point, prf.value, gs)
        ipa == verify_ipa_proof(prf.commitment, gs, prf.point, prf.value,
                                prf.evaluation_proof.ipa_proof)
    IN  [result |-> IF ipa.panic # "none" THEN "panic"
                    ELSE IF kate_valid /\ ipa.valid THEN "true" ELSE "false",
         kate_valid |-> kate_valid, ipa_valid |-> ipa.valid, panic |-> ipa.panic,
         generators |-> gs, challenges |-> ipa.challenges,
         g_reconstructed |-> ipa.g_reconstructed, h_reconstructed |-> ipa.h_reconstructed]

\* ------------------------------------------------------------------ state
NoSetup == [powers_of_g |-> <<>>, powers_of_h |-> <<>>, s |-> 0]
NoCommit == [commitment |-> 0, g_vec |-> <<>>, err |-> "none"]
NoKate == [panic |-> "none", quotient_coeffs |-> <<>>, remainder |-> 0, witness |-> 0]
NoProof ==
    [commitment |-> 0,
     evaluation_proof |->
         [witness |-> 0,
          ipa_proof |-> [l_vec |-> <<>>, r_vec |-> <<>>, a_final |-> 0, b_final |-> 0]],
     point |-> 0, value |-> 0]
NoVerdict ==
    [result |-> "none", kate_valid |-> FALSE, ipa_valid |-> FALSE, panic |-> "none",
     generators |-> <<>>, challenges |-> <<>>,
     g_reconstructed |-> <<>>, h_reconstructed |-> <<>>]

KzgRest(pc) ==
    /\ kzg_pc = pc
    /\ degree = 0 /\ s = 0 /\ coeffs = <<>> /\ z = 0 /\ y_claim = 0
    /\ setup = NoSetup /\ poly = <<>> /\ commitment = 0 /\ kzg_err = "none"
    /\ y = 0 /\ proof = 0 /\ kzg_result = "none"

IpaRest(pc) ==
    /\ ipa_pc = pc
    /\ ipa_commit = NoCommit /\ value = 0 /\ kate = NoKate
    /\ a_vec = <<>> /\ b_vec = <<>> /\ g_vec = <<>> /\ h_vec = <<>>
    /\ l_vec = <<>> /\ r_vec = <<>> /\ challenges = <<>>
    /\ sproof = NoProof /\ verdict = NoVerdict /\ ipa_panic = "none"

\* Coefficient vectors handed to the KZG engine.
KzgInputs == UNION {[1..n -> Fr] : n \in 0..MaxCoeffs}

\* Coefficient vectors handed to the IPA engine.
IpaInputs ==
    (UNION {[1..n -> Scalar] : n \in 0..MaxShort})
        \cup (UNION {[1..n -> {0, 1}] : n \in 0..MaxLen})

\* ------------------------------------------------------------ KZG actions
\* kzg_trusted_setup(degree, rng): the rng yields the secret sec.
KzgTrustedSetup ==
    /\ kzg_pc = "start"
    /\ \E d \in 0..MaxDegree, sec \in Fr :
          /\ degree' = d
          /\ s' = sec
          /\ setup' = kzg_trusted_setup(d, sec)
    /\ kzg_pc' = "setup"
    /\ UNCHANGED <<coeffs, z, y_claim, poly, commitment, kzg_err, y, proof, kzg_result>>
    /\ UNCHANGED ipaVars

\* poly = from_coefficients_vec(coeffs); commitment = kzg_commit(&poly, &setup).
\* kzg_commit returns a bare group element: it has no error to report.
KzgCommit ==
    /\ kzg_pc = "setup"
    /\ \E cs \in KzgInputs :
          /\ coeffs' = cs
          /\ poly' = from_coefficients_vec(cs)
          /\ commitment' = kzg_commit(from_coefficients_vec(cs), setup)
    /\ kzg_err' = "none"
    /\ kzg_pc' = "committed"
    /\ UNCHANGED <<degree, s, setup, z, y_claim, y, proof, kzg_result>>
    /\ UNCHANGED ipaVars

\* y = poly.evaluate(&z); proof = kzg_create_proof(&poly, z, &setup).
KzgCreateProof ==
    /\ kzg_pc = "committed"
    /\ \E pt \in Fr :
          /\ z' = pt
          /\ y' = PolyEvaluate(poly, pt)
          /\ proof' = kzg_create_proof(poly, pt, setup)
    /\ kzg_err' = "none"
    /\ kzg_pc' = "proved"
    /\ UNCHANGED <<degree, s, setup, coeffs, poly, commitment, y_claim, kzg_result>>
    /\ UNCHANGED ipaVars

\* kzg_verify on the honest commitment, point and proof, for any claimed value.
KzgVerify ==
    /\ kzg_pc = "proved"
    /\ \E val \in Fr :
          /\ y_claim' = val
          /\ kzg_result' = kzg_verify(commitment, z, val, proof, setup)
    /\ kzg_pc' = "verified"
    /\ UNCHANGED <<degree, s, setup, coeffs, poly, commitment, kzg_err, z, y, proof>>
    /\ UNCHANGED ipaVars

\* kzg_verify on any commitment, point, value and proof.
KzgVerifyAny ==
    /\ kzg_pc = "setup"
    /\ \E c \in Fr, pt \in Fr, val \in Fr, prf \in Fr :
          /\ commitment' = c
          /\ z' = pt
          /\ y_claim' = val
          /\ proof' = prf
          /\ kzg_result' = kzg_verify(c, pt, val, prf, setup)
    /\ kzg_pc' = "verified"
    /\ UNCHANGED <<degree, s, setup, coeffs, poly, kzg_err, y>>
    /\ UNCHANGED ipaVars

\* ------------------------------------------------------------ IPA actions
\* supersonic_commit(coeffs): commit returns a bare point, with no error to report.
SupersonicCommit ==
    /\ ipa_pc = "start"
    /\ LET gs == generate_g_vec(Len(coeffs_scalar))
       IN  ipa_commit' = [commitment |-> commit(coeffs_scalar, gs), g_vec |-> gs,
                          err |-> "none"]
    /\ ipa_pc' = "committed"
    /\ UNCHANGED <<seed, coeffs_scalar, x_scalar, value, kate, a_vec, b_vec, g_vec, h_vec,
                   l_vec, r_vec, challenges, sproof, verdict, ipa_panic>>
    /\ UNCHANGED kzgVars

\* supersonic_create_proof: y = eval_poly_scalar(..), then create_kate_witness.
CreateKateWitness ==
    /\ ipa_pc = "committed"
    /\ LET val == eval_poly_scalar(coeffs_scalar, x_scalar)
           k == create_kate_witness(coeffs_scalar, x_scalar, val, ipa_commit.g_vec)
       IN  /\ value' = val
           /\ kate' = k
           /\ ipa_panic' = k.panic
           /\ ipa_pc' = IF k.panic = "none" THEN "witnessed" ELSE "panic"
    /\ UNCHANGED <<seed, coeffs_scalar, x_scalar, ipa_commit, a_vec, b_vec, g_vec, h_vec,
                   l_vec, r_vec, challenges, sproof, verdict>>
    /\ UNCHANGED kzgVars

\* create_ipa_proof up to the loop: the length assertion and the working vectors.
CreateIpaProofBegin ==
    /\ ipa_pc = "witnessed"
    /\ LET n == Len(coeffs_scalar)
       IN  IF ~is_power_of_two(n)
           THEN /\ ipa_pc' = "panic"
                /\ ipa_panic' = "Polynomial degree must be a power of 2"
                /\ UNCHANGED <<a_vec, b_vec, g_vec, h_vec>>
           ELSE /\ ipa_pc' = "fold"
                /\ a_vec' = coeffs_scalar
                /\ b_vec' = generate_evaluation_vector(x_scalar, n)
                /\ g_vec' = ipa_commit.g_vec
                /\ h_vec' = generate_g_vec(n)
                /\ UNCHANGED ipa_panic
    /\ l_vec' = <<>>
    /\ r_vec' = <<>>
    /\ challenges' = <<>>
    /\ UNCHANGED <<seed, coeffs_scalar, x_scalar, ipa_commit, value, kate, sproof, verdict>>
    /\ UNCHANGED kzgVars

\* One iteration of the while loop of create_ipa_proof.
FoldRound ==
    /\ ipa_pc = "fold"
    /\ Len(a_vec) > 1
    /\ LET mid == Mid(a_vec)
           a_l == SplitL(a_vec, mid)
           a_r == SplitR(a_vec, mid)
           b_l == SplitL(b_vec, mid)
           b_r == SplitR(b_vec, mid)
           g_l == SplitL(g_vec, mid)
           g_r == SplitR(g_vec, mid)
           h_l == SplitL(h_vec, mid)
           h_r == SplitR(h_vec, mid)
           l_commit == multiscalar_mul(a_l \o b_r, g_r \o h_l)
           r_commit == multiscalar_mul(a_r \o b_l, g_l \o h_r)
           challenge == Challenge(l_commit, r_commit)
       IN  /\ l_vec' = Append(l_vec, l_commit)
           /\ r_vec' = Append(r_vec, r_commit)
           /\ challenges' = Append(challenges, challenge)
           /\ a_vec' = FoldZip(a_l, a_r, challenge)
           /\ b_vec' = FoldZip(b_l, b_r, challenge)
           /\ g_vec' = FoldZip(g_l, g_r, challenge)
           /\ h_vec' = FoldZip(h_l, h_r, challenge)
    /\ UNCHANGED <<ipa_pc, seed, coeffs_scalar, x_scalar, ipa_commit, value, kate, sproof,
                   verdict, ipa_panic>>
    /\ UNCHANGED kzgVars

\* The loop exits; create_ipa_proof and supersonic_create_proof build their results.
FoldDone ==
    /\ ipa_pc = "fold"
    /\ ~(Len(a_vec) > 1)
    /\ IF a_vec = <<>> \/ b_vec = <<>>
       THEN /\ ipa_pc' = "panic"
            /\ ipa_panic' = "index out of bounds"
            /\ UNCHANGED sproof
       ELSE /\ ipa_pc' = "proved"
            /\ sproof' =
                   [commitment |-> ipa_commit.commitment,
                    evaluation_proof |->
                        [witness |-> kate.witness,
                         ipa_proof |-> [l_vec |-> l_vec, r_vec |-> r_vec,
                                        a_final |-> a_vec[1], b_final |-> b_vec[1]]],
                    point |-> x_scalar, value |-> value]
            /\ UNCHANGED ipa_panic
    /\ UNCHANGED <<seed, coeffs_scalar, x_scalar, ipa_commit, value, kate, a_vec, b_vec,
                   g_vec, h_vec, l_vec, r_vec, challenges, verdict>>
    /\ UNCHANGED kzgVars

\* supersonic_verify_proof on the proof just built.
SupersonicVerifyProof ==
    /\ ipa_pc = "proved"
    /\ verdict' = supersonic_verify_proof(sproof)
    /\ ipa_pc' = "verified"
    /\ UNCHANGED <<seed, coeffs_scalar, x_scalar, ipa_commit, value, kate, a_vec, b_vec,
                   g_vec, h_vec, l_vec, r_vec, challenges, sproof, ipa_panic>>
    /\ UNCHANGED kzgVars

\* (L, R) vectors of a hand-built proof: k copies of the base point.
Copies(k) == [i \in 1..k |-> RISTRETTO_BASEPOINT_POINT]

\* supersonic_verify_proof on any well-typed proof.
SupersonicVerifyAny ==
    /\ ipa_pc = "start"
    /\ \E c \in Scalar, w \in Scalar, pt \in Scalar, val \in Scalar,
          af \in {0, 1}, bf \in {0, 1}, kl \in 0..MaxPairs, kr \in 0..MaxPairs :
          LET prf == [commitment |-> c,
                      evaluation_proof |->
                          [witness |-> w,
                           ipa_proof |-> [l_vec |-> Copies(kl), r_vec |-> Copies(kr),
                                          a_final |-> af, b_final |-> bf]],
                      point |-> pt, value |-> val]
          IN  /\ sproof' = prf
              /\ verdict' = supersonic_verify_proof(prf)
    /\ ipa_pc' = "verified"
    /\ UNCHANGED <<seed, coeffs_scalar, x_scalar, ipa_commit, value, kate, a_vec, b_vec,
                   g_vec, h_vec, l_vec, r_vec, challenges, ipa_panic>>
    /\ UNCHANGED kzgVars

\* --------------------------------------------------------- specifications
\* The KZG engine: setup, commit, prove, verify.
InitKZG ==
    /\ KzgRest("start")
    /\ seed = 0 /\ coeffs_scalar = <<>> /\ x_scalar = 0
    /\ IpaRest("off")

NextKZG == KzgTrustedSetup \/ KzgCommit \/ KzgCreateProof \/ KzgVerify

SpecKZG == InitKZG /\ [][NextKZG]_vars

\* The IPA engine: supersonic_create_proof, then supersonic_verify_proof.
InitIPA ==
    /\ KzgRest("off")
    /\ seed \in 0..MaxSeed
    /\ coeffs_scalar \in IpaInputs
    /\ x_scalar \in Scalar
    /\ IpaRest("start")

NextIPA ==
    \/ SupersonicCommit
    \/ CreateKateWitness
    \/ CreateIpaProofBegin
    \/ FoldRound
    \/ FoldDone
    \/ SupersonicVerifyProof

SpecIPA == InitIPA /\ [][NextIPA]_vars

\* The two verifiers on inputs of any provenance.
InitVerify ==
    \/ /\ KzgRest("start")
       /\ seed = 0 /\ coeffs_scalar = <<>> /\ x_scalar = 0
       /\ IpaRest("off")
    \/ /\ KzgRest("off")
       /\ seed \in 0..MaxSeed
       /\ coeffs_scalar = <<>> /\ x_scalar = 0
       /\ IpaRest("start")

NextVerify == KzgTrustedSetup \/ KzgVerifyAny \/ SupersonicVerifyAny

SpecVerify == InitVerify /\ [][NextVerify]_vars

\* Both engines, each on honest inputs.
Init == InitKZG \/ InitIPA

Next == NextKZG \/ NextIPA

Spec == Init /\ [][Next]_vars

\* ----------------------------------------------------------------- claims
\* floor(log2 n) for n >= 1.
RECURSIVE Log2(_)
Log2(n) == IF n <= 1 THEN 0 ELSE 1 + Log2(n \div 2)

RECURSIVE Pow2(_)
Pow2(k) == IF k = 0 THEN 1 ELSE 2 * Pow2(k - 1)

\* C1: KZG completeness.  Whenever kzg_verify has been run on the honest
\* commitment and proof of a polynomial of degree at most the SRS bound,
\* with the true value f(z), it returned true.
C1_KzgCompleteness ==
    (kzg_pc = "verified" /\ PolyDegree(poly) <= degree /\ y_claim = y)
        => kzg_result = "true"

\* C2: IPA completeness.  Whenever supersonic_verify_proof has been run on
\* the proof supersonic_create_proof built for a power-of-two coefficient
\* vector, it returned true.
C2_IpaCompleteness ==
    (ipa_pc = "verified" /\ is_power_of_two(Len(coeffs_scalar)))
        => verdict.result = "true"

\* C3: KZG rejects a wrong claimed value.  With an SRS bound of at least 1
\* and a polynomial within the bound, kzg_verify on the honest commitment
\* and proof returns false for every value other than f(z).
C3_KzgRejectsWrongValue ==
    (kzg_pc = "verified" /\ degree >= 1 /\ PolyDegree(poly) <= degree /\ y_claim # y)
        => kzg_result = "false"

C3_Witness ==
    /\ kzg_pc = "verified"
    /\ degree >= 1
    /\ PolyDegree(poly) = degree
    /\ y_claim = FrAdd(y, 1)
    /\ kzg_result = "false"

\* C4: verification never raises.  Whatever the inputs, kzg_verify and
\* supersonic_verify_proof end with a boolean.
C4_VerifyNeverPanics ==
    /\ kzg_pc = "verified" => kzg_result \in {"true", "false"}
    /\ ipa_pc = "verified" => verdict.result \in {"true", "false"}

\* C5: kzg_commit and kzg_create_proof report DegreeExceeded exactly when
\* deg(f) exceeds the SRS bound; within the bound the commitment is the sum
\* of f_i * s^i * G over all coefficients of f.
C5_DegreeExceededIff ==
    kzg_pc \in {"committed", "proved", "verified"} =>
        /\ (kzg_err = "DegreeExceeded") <=> (PolyDegree(poly) > degree)
        /\ PolyDegree(poly) <= degree =>
               commitment = FrMul(G1Generator, PolyEvaluate(poly, s))

\* C6: the IPA commit fails with InvalidLength exactly when the number of
\* coefficients is not a power of two.
C6_InvalidLengthIff ==
    ipa_pc \in {"committed", "witnessed", "fold", "proved", "verified", "panic"} =>
        ((ipa_commit.err = "InvalidLength") <=> ~is_power_of_two(Len(coeffs_scalar)))

\* C7: round count.  For n = 2^k coefficients, after round i each working
\* vector a, b, G, H has n / 2^i entries, the loop never runs past round k
\* nor ends on an empty vector, and the proof carries exactly k entries in
\* l_vec and k entries in r_vec.
C7_RoundCount ==
    LET n == Len(coeffs_scalar)
        i == Len(l_vec)
    IN  /\ ipa_pc = "fold" =>
               /\ is_power_of_two(n)
               /\ Len(r_vec) = i
               /\ i <= Log2(n)
               /\ \A v \in {a_vec, b_vec, g_vec, h_vec} : Len(v) * Pow2(i) = n
        /\ ipa_pc \in {"proved", "verified"} =>
               /\ Pow2(Len(sproof.evaluation_proof.ipa_proof.l_vec)) = n
               /\ Pow2(Len(sproof.evaluation_proof.ipa_proof.r_vec)) = n
        /\ ipa_pc = "panic" => ipa_panic # "index out of bounds"

C7_Witness ==
    /\ ipa_pc = "proved"
    /\ Len(coeffs_scalar) = 8
    /\ Len(sproof.evaluation_proof.ipa_proof.l_vec) = 3
    /\ Len(a_vec) = 1

\* C8: on every honest proof the verifier recomputes the prover's
\* challenges, folds generator vectors as long as the coefficient vector,
\* and ends with the prover's final g_vec and h_vec.
C8_VerifierRefoldsAsProver ==
    (ipa_pc = "verified" /\ is_power_of_two(Len(coeffs_scalar))) =>
        /\ verdict.challenges = challenges
        /\ Len(verdict.generators) = Len(coeffs_scalar)
        /\ verdict.g_reconstructed # <<>>
        /\ verdict.h_reconstructed # <<>>
        /\ verdict.g_reconstructed[1] = g_vec[1]
        /\ verdict.h_reconstructed[1] = h_vec[1]

\* C9: on every honest proof the surviving scalars multiply to y = f(x).
C9_FinalProductIsValue ==
    ipa_pc \in {"proved", "verified"} =>
        ScMul(sproof.evaluation_proof.ipa_proof.a_final,
              sproof.evaluation_proof.ipa_proof.b_final) = value

\* C10: in create_kate_witness, for every non-empty coefficient vector the
\* remainder of the synthetic division equals y = eval_poly_scalar(coeffs, x),
\* the assertion does not fire, and the quotient has len(coeffs) - 1 entries.
C10_RemainderIsValue ==
    (ipa_pc \in {"witnessed", "fold", "proved", "verified", "panic"}
         /\ Len(coeffs_scalar) >= 1) =>
        /\ kate.remainder = value
        /\ kate.panic = "none"
        /\ Len(kate.quotient_coeffs) = Len(coeffs_scalar) - 1

C10_Witness ==
    /\ ipa_pc = "witnessed"
    /\ Len(coeffs_scalar) >= 3
    /\ x_scalar >= 2
    /\ value # 0
    /\ kate.remainder = value
    /\ Len(kate.quotient_coeffs) = Len(coeffs_scalar) - 1

\* C11: the two generator vectors of the fold are independent.  When
\* create_ipa_proof enters its loop, and after every round, the vector H it
\* built differs from the commitment basis G at every index in use; the
\* vectors the verifier reconstructs differ likewise.
C11_GeneratorsIndependent ==
    /\ ipa_pc = "fold" =>
           \A i \in 1..Min(Len(g_vec), Len(h_vec)) : h_vec[i] # g_vec[i]
    /\ ipa_pc = "verified" =>
           \A i \in 1..Min(Len(verdict.g_reconstructed), Len(verdict.h_reconstructed)) :
               verdict.h_reconstructed[i] # verdict.g_reconstructed[i]

====
